---- MODULE Spec2Model ----
(***************************************************************************)
(* Model of the go-acoustid indexing core:                                 *)
(*   - index.ItemBuffer, itemBufferReader, MergeItemReaders,               *)
(*     multiItemReader and ReadAllItems      (src/unnamed/part_000)        *)
(*   - chromaprint fingerprint decoding      (src/unnamed/part_002)        *)
(* Four specifications share the module: SpecBuf (one ItemBuffer under     *)
(* Add/Delete/Reset/Reader), SpecMerge (a MergeItemReaders tree over        *)
(* ItemBuffer readers drained by ReadAllItems), SpecSource (the same tree   *)
(* over arbitrary ItemReaders, which may fail or return empty blocks) and   *)
(* SpecCodec (the fingerprint decode entry points).                        *)
(***************************************************************************)
EXTENDS Integers, Sequences, FiniteSets, Bags, TLC

VARIABLES
    ib,     \* the ItemBuffer: [numDocs, minDocID, maxDocID, items]
    rd,     \* the itemBufferReader last returned by ib.Reader(): [live, pos], with
            \* fresh (no Add/Delete/Reset since Reader()) and again (obtained
            \* from a buffer mutated since an earlier Reader())
    op,     \* the last ItemBuffer operation: [name, docID, ret, fresh]
    out,    \* the slice returned by the last ReadAllItems on rd
    seqs,   \* SpecMerge: the sorted posting sequences handed to the source readers
    root,   \* SpecMerge: the ItemReader returned by MergeItemReaders
    mem,    \* SpecMerge: the backing arrays (ItemBuffer.items, multiItemReader.buf)
            \* and, in SpecSource, the state of the source readers
    acc,    \* SpecMerge: ReadAllItems' local slice `items`
    pc,     \* SpecMerge: where the caller is: start, loop, return, panic
    rerr,   \* SpecMerge: the error ReadAllItems returned
    cfp,    \* SpecCodec: the Fingerprint handed to the encoder (or NoFingerprint)
    cdata,  \* SpecCodec: the binary fingerprint data
    ctext,  \* SpecCodec: the base64 fingerprint string
    cstage, \* SpecCodec: what the caller holds: fp, bytes, text, done
    cres    \* SpecCodec: the last entry point called and what it returned

bufVars == <<ib, rd, op, out>>
mergeVars == <<seqs, root, mem, acc, pc, rerr>>
codecVars == <<cfp, cdata, ctext, cstage, cres>>
vars == <<bufVars, mergeVars, codecVars>>

\* ------------------------------------------------------------------------
\* Bounds of the model
\* ------------------------------------------------------------------------
MaxDoc == 2
MaxTerm == 2
MaxTerms == 2
MaxItems == 2

\* uint32 values that are compared with math.MaxUint32 (the docIDs) are held
\* as two 16-bit limbs <<high, low>>: TLC's integers stop at 2^31 - 1.
U32(n) == <<n \div 65536, n % 65536>>
LtU32(a, b) == a[1] < b[1] \/ (a[1] = b[1] /\ a[2] < b[2])
GtU32(a, b) == LtU32(b, a)
LeU32(a, b) == ~LtU32(b, a)

\* math.MaxUint32 = 2^32 - 1
MaxUint32 == <<65535, 65535>>

DocIDs == {U32(d) : d \in 0..MaxDoc}
Terms == 1..MaxTerm

RECURSIVE SeqsUpTo(_, _)
SeqsUpTo(S, n) ==
    IF n = 0 THEN {<<>>}
    ELSE LET shorter == SeqsUpTo(S, n - 1)
         IN  shorter \cup {Append(s, x) : s \in {t \in shorter : Len(t) = n - 1}, x \in S}

TermLists == SeqsUpTo(Terms, MaxTerms)

\* type Item struct { Term, DocID uint32 }
Item(term, docID) == [Term |-> term, DocID |-> docID]

\* ------------------------------------------------------------------------
\* ItemBuffer
\* ------------------------------------------------------------------------
EmptyBuffer == [numDocs |-> 0, minDocID |-> U32(0), maxDocID |-> U32(0), items |-> <<>>]

NumDocs(b) == b.numDocs
NumItems(b) == Len(b.items)
MinDocID(b) == b.minDocID
MaxDocID(b) == b.maxDocID
Empty(b) == Len(b.items) = 0

Reset(b) == [numDocs |-> 0, minDocID |-> U32(0), maxDocID |-> U32(0), items |-> <<>>]

AddKeepsMin(b, docID, terms) ==
    LET n == b.numDocs + 1
    IN  [numDocs  |-> n,
         minDocID |-> IF n = 1 THEN docID ELSE b.minDocID,
         maxDocID |-> IF n = 1 \/ LtU32(b.maxDocID, docID) THEN docID ELSE b.maxDocID,
         items    |-> b.items \o [i \in 1..Len(terms) |-> Item(terms[i], docID)]]

Add(b, docID, terms) ==
    LET n == b.numDocs + 1
    IN  [numDocs  |-> n,
         minDocID |-> IF n = 1 \/ GtU32(b.minDocID, docID) THEN docID ELSE b.minDocID,
         maxDocID |-> IF n = 1 \/ LtU32(b.maxDocID, docID) THEN docID ELSE b.maxDocID,
         items    |-> b.items \o [i \in 1..Len(terms) |-> Item(terms[i], docID)]]

\* The rescan loop of Delete (lines 97-104): folds the remaining items into
\* the pair (minDocID, maxDocID), starting from the values set before it.
RECURSIVE Rescan(_, _, _, _)
Rescan(items, i, mn, mx) ==
    IF i > Len(items) THEN [minDocID |-> mn, maxDocID |-> mx]
    ELSE Rescan(items, i + 1,
                IF LtU32(items[i].DocID, mn) THEN items[i].DocID ELSE mn,
                IF GtU32(items[i].DocID, mx) THEN items[i].DocID ELSE mx)

\* Delete returns the buffer after the call and the call's result.
DeleteBuggyCount(b, docID) ==
    IF LtU32(docID, b.minDocID) \/ GtU32(docID, b.maxDocID)
    THEN [ib |-> b, ret |-> FALSE]
    ELSE LET kept == SelectSeq(b.items, LAMBDA it : it.DocID # docID)
         IN  [ib |-> [b EXCEPT !.numDocs = b.numDocs - 1, !.items = kept],
              ret |-> Len(kept) # Len(b.items)]

Delete(b, docID) ==
    IF LtU32(docID, b.minDocID) \/ GtU32(docID, b.maxDocID)
    THEN [ib |-> b, ret |-> FALSE]
    ELSE LET kept == SelectSeq(b.items, LAMBDA it : it.DocID # docID)
         IN  IF Len(kept) = Len(b.items)
             THEN [ib |-> b, ret |-> FALSE]
             ELSE LET n == b.numDocs - 1
                      bounds ==
                          IF docID = b.minDocID \/ docID = b.maxDocID
                          THEN IF n > 0
                               THEN Rescan(kept, 1, MaxUint32, U32(0))
                               ELSE [minDocID |-> U32(0), maxDocID |-> U32(0)]
                          ELSE [minDocID |-> b.minDocID, maxDocID |-> b.maxDocID]
                  IN  [ib |-> [numDocs  |-> n,
                               minDocID |-> bounds.minDocID,
                               maxDocID |-> bounds.maxDocID,
                               items    |-> kept],
                       ret |-> TRUE]

\* The comparison handed to sort.Slice by Reader (line 114).
LessTermOnly(a, b) == a.Term < b.Term

Less(a, b) == a.Term < b.Term \/ (a.Term = b.Term /\ LtU32(a.DocID, b.DocID))

\* sort.Slice: the slice reordered so that no later element is Less than an
\* earlier one (insertion sort; elements that compare equal are identical
\* Items under Less, so the result does not depend on the algorithm).
RECURSIVE InsertSorted(_, _)
InsertSorted(s, x) ==
    IF s = <<>> THEN <<x>>
    ELSE IF Less(x, Head(s)) THEN <<x>> \o s
    ELSE <<Head(s)>> \o InsertSorted(Tail(s), x)

RECURSIVE SortSlice(_)
SortSlice(s) ==
    IF s = <<>> THEN <<>>
    ELSE InsertSorted(SortSlice(SubSeq(s, 1, Len(s) - 1)), s[Len(s)])

\* Reader sorts ib.items in place and returns a reader positioned at 0.
Reader(b) == [ib |-> [b EXCEPT !.items = SortSlice(b.items)], pos |-> 0]

itemBufferReader_ReadBlockNoEOF(pos, n) ==
    IF pos >= n
    THEN [pos |-> pos, lo |-> 0, hi |-> 0, err |-> "nil"]
    ELSE [pos |-> pos + (n - pos), lo |-> pos, hi |-> n, err |-> "nil"]

\* itemBufferReader.ReadBlock, for a reader at r.pos over a buffer holding n
\* items now: the block returned is r.ib.items[lo:hi] (nil when lo = hi).
itemBufferReader_ReadBlock(pos, n) ==
    IF pos >= n
    THEN [pos |-> pos, lo |-> 0, hi |-> 0, err |-> "EOF"]
    ELSE [pos |-> pos + (n - pos), lo |-> pos, hi |-> n, err |-> "nil"]

\* ReadAllItems over an itemBufferReader: the loop of lines 27-36.
RECURSIVE ReadAllBuffer(_, _, _)
ReadAllBuffer(pos, items, got) ==
    LET r == itemBufferReader_ReadBlock(pos, Len(items))
        block == SubSeq(items, r.lo + 1, r.hi)
    IN  IF r.err # "nil"
        THEN [pos |-> r.pos, items |-> got \o block,
              err |-> IF r.err = "EOF" THEN "nil" ELSE r.err]
        ELSE ReadAllBuffer(r.pos, items, got \o block)

\* ------------------------------------------------------------------------
\* SpecBuf: one ItemBuffer driven by Add, Delete, Reset, Reader, and
\* ReadAllItems on the reader obtained last.
\* ------------------------------------------------------------------------
NoOp == [name |-> "none", docID |-> U32(0), ret |-> FALSE, fresh |-> FALSE]
NoReader == [live |-> FALSE, pos |-> 0, fresh |-> FALSE, again |-> FALSE]

BufIdle ==
    /\ ib = EmptyBuffer
    /\ rd = NoReader
    /\ op = NoOp
    /\ out = <<>>

MergeIdle ==
    /\ seqs = <<>>
    /\ root = [kind |-> "nil"]
    /\ mem = <<>>
    /\ acc = <<>>
    /\ pc = "idle"
    /\ rerr = "nil"

NoFingerprint == [Version |-> -1, Hashes |-> <<>>]
NoResult == [entry |-> "none", status |-> "none", err |-> "nil", fp |-> NoFingerprint]

CodecIdle ==
    /\ cfp = NoFingerprint
    /\ cdata = <<>>
    /\ ctext = <<>>
    /\ cstage = "idle"
    /\ cres = NoResult

InitBuf == BufIdle /\ MergeIdle /\ CodecIdle

DoAdd ==
    \E docID \in DocIDs, terms \in TermLists :
        /\ Len(ib.items) + Len(terms) <= MaxItems
        /\ ib.numDocs < MaxItems + 1
        /\ ib' = Add(ib, docID, terms)
        /\ rd' = [rd EXCEPT !.fresh = FALSE]
        /\ op' = [name |-> "Add", docID |-> docID, ret |-> FALSE, fresh |-> FALSE]
        /\ out' = <<>>
        /\ UNCHANGED <<mergeVars, codecVars>>

DoDelete ==
    \E docID \in DocIDs :
        LET r == Delete(ib, docID)
        IN  /\ ib' = r.ib
            /\ rd' = [rd EXCEPT !.fresh = FALSE]
            /\ op' = [name |-> "Delete", docID |-> docID, ret |-> r.ret, fresh |-> FALSE]
            /\ out' = <<>>
            /\ UNCHANGED <<mergeVars, codecVars>>

DoReset ==
    /\ ib' = Reset(ib)
    /\ rd' = [rd EXCEPT !.fresh = FALSE]
    /\ op' = [name |-> "Reset", docID |-> U32(0), ret |-> FALSE, fresh |-> FALSE]
    /\ out' = <<>>
    /\ UNCHANGED <<mergeVars, codecVars>>

DoReader ==
    LET r == Reader(ib)
    IN  /\ ib' = r.ib
        /\ rd' = [live |-> TRUE, pos |-> r.pos, fresh |-> TRUE,
                  again |-> rd.live /\ ~rd.fresh]
        /\ op' = [name |-> "Reader", docID |-> U32(0), ret |-> FALSE, fresh |-> FALSE]
        /\ out' = <<>>
        /\ UNCHANGED <<mergeVars, codecVars>>

DoReadAll ==
    /\ rd.live
    /\ LET r == ReadAllBuffer(rd.pos, ib.items, <<>>)
       IN  /\ rd' = [rd EXCEPT !.pos = r.pos]
           /\ out' = r.items
           /\ op' = [name |-> "ReadAll", docID |-> U32(0), ret |-> r.err = "nil",
                     fresh |-> rd.fresh /\ rd.pos = 0]
    /\ UNCHANGED <<ib, mergeVars, codecVars>>

NextBuf == DoAdd \/ DoDelete \/ DoReset \/ DoReader \/ DoReadAll

SpecBuf == InitBuf /\ [][NextBuf]_vars

\* ------------------------------------------------------------------------
\* ItemReader values, slices and backing arrays
\* ------------------------------------------------------------------------
\* A Go slice is a window [lo, hi) onto the backing array mem[base]; the
\* arrays are the items of each source ItemBuffer and the buf of each
\* multiItemReader.  A source reader over input i has the id <<i, i>>, a
\* multiItemReader over the inputs l..h the id <<l, h>>.
NilSlice == [base |-> <<0, 0>>, lo |-> 0, hi |-> 0]
Slice(base, lo, hi) == [base |-> base, lo |-> lo, hi |-> hi]
SliceLen(s) == s.hi - s.lo
SliceAt(s, m, k) == m[s.base][s.lo + k + 1]
SliceVals(s, m) == IF SliceLen(s) = 0 THEN <<>> ELSE SubSeq(m[s.base], s.lo + 1, s.hi)

\* The size of multiItemReader.buf: make([]Item, 1024) in init(), scaled down.
BufSize == 2

NilReader == [kind |-> "nil"]

\* &itemBufferReader{ib: ib}, as returned by ItemBuffer.Reader().
NewItemBufferReader(id) == [kind |-> "buf", id |-> id, pos |-> 0]

\* &multiItemReader{reader1: r1, reader2: r2} followed by init().
NewMultiItemReader(r1, r2) ==
    [kind |-> "multi", id |-> <<r1.id[1], r2.id[2]>>,
     reader1 |-> r1, reader2 |-> r2, block1 |-> NilSlice, block2 |-> NilSlice]

RECURSIVE MergeItemReaders(_)
MergeItemReaders(readers) ==
    CASE Len(readers) = 0 -> NilReader
      [] Len(readers) = 1 -> readers[1]
      [] Len(readers) = 2 ->
            IF readers[1].kind = "nil" THEN readers[2]
            ELSE IF readers[2].kind = "nil" THEN readers[1]
            ELSE NewMultiItemReader(readers[1], readers[2])
      [] OTHER ->
            LET mid == Len(readers) \div 2
                reader1 == MergeItemReaders(SubSeq(readers, 1, mid))
                reader2 == MergeItemReaders(SubSeq(readers, mid + 1, Len(readers)))
            IN  MergeItemReaders(<<reader1, reader2>>)

\* The comparison of line 196: take the head of block1.
PickBlock1(v1, v2) ==
    v1.Term <= v2.Term \/ (v1.Term = v2.Term /\ LeU32(v1.DocID, v2.DocID))

\* The merge loop of lines 193-211, from index i on: writes r.buf in mem
\* and returns the blocks left and the length n of the items returned.
RECURSIVE MergeLoop(_, _, _, _, _)
MergeLoop(id, b1, b2, m, i) ==
    IF i >= BufSize
    THEN [block1 |-> b1, block2 |-> b2, mem |-> m, n |-> BufSize]
    ELSE LET v1 == SliceAt(b1, m, 0)
             v2 == SliceAt(b2, m, 0)
         IN  IF PickBlock1(v1, v2)
             THEN LET m1 == [m EXCEPT ![id][i + 1] = v1]
                      nb1 == [b1 EXCEPT !.lo = b1.lo + 1]
                  IN  IF SliceLen(nb1) = 0
                      THEN [block1 |-> nb1, block2 |-> b2, mem |-> m1, n |-> i + 1]
                      ELSE MergeLoop(id, nb1, b2, m1, i + 1)
             ELSE LET m2 == [m EXCEPT ![id][i + 1] = v2]
                      nb2 == [b2 EXCEPT !.lo = b2.lo + 1]
                  IN  IF SliceLen(nb2) = 0
                      THEN [block1 |-> b1, block2 |-> nb2, mem |-> m2, n |-> i + 1]
                      ELSE MergeLoop(id, b1, nb2, m2, i + 1)

\* ReadBlock(r, m): the call r.ReadBlock() with the arrays as in m.  Returns
\* the reader after the call, the slice and error returned, and the arrays.
RECURSIVE ReadBlock(_, _)

\* One refill of lines 169-178 (180-189): the side's block, source and the
\* error after it.
RefillKeepsReader(block, reader, m) ==
    IF SliceLen(block) = 0 /\ reader.kind # "nil"
    THEN LET c == ReadBlock(reader, m)
         IN  IF c.err = "nil"
             THEN [block |-> c.items, reader |-> c.reader, err |-> "nil", mem |-> c.mem]
             ELSE IF c.err # "EOF"
             THEN [block |-> c.items, reader |-> c.reader, err |-> c.err, mem |-> c.mem]
             ELSE [block |-> c.items, reader |-> c.reader, err |-> "nil", mem |-> c.mem]
    ELSE [block |-> block, reader |-> reader, err |-> "nil", mem |-> m]

Refill(block, reader, m) ==
    IF SliceLen(block) = 0 /\ reader.kind # "nil"
    THEN LET c == ReadBlock(reader, m)
         IN  IF c.err = "nil"
             THEN [block |-> c.items, reader |-> c.reader, err |-> "nil", mem |-> c.mem]
             ELSE IF c.err # "EOF"
             THEN [block |-> c.items, reader |-> c.reader, err |-> c.err, mem |-> c.mem]
             ELSE [block |-> c.items, reader |-> NilReader, err |-> "nil", mem |-> c.mem]
    ELSE [block |-> block, reader |-> reader, err |-> "nil", mem |-> m]

\* multiItemReader.ReadBlock: both refills, then the merge of the two blocks
\* or the hand-over of the one that is left.
multiItemReader_ReadBlockDropsRefill(r, m) ==
    LET s1 == Refill(r.block1, r.reader1, m)
        r1 == [r EXCEPT !.block1 = s1.block, !.reader1 = s1.reader]
    IN  IF s1.err # "nil"
        THEN [reader |-> r1, items |-> NilSlice, err |-> s1.err, mem |-> s1.mem]
        ELSE
        LET s2 == Refill(r1.block2, r1.reader2, s1.mem)
            r2 == [r1 EXCEPT !.block2 = s2.block, !.reader2 = s2.reader]
        IN  IF s2.err # "nil"
            THEN [reader |-> [r2 EXCEPT !.block1 = r.block1],
                  items |-> NilSlice, err |-> s2.err, mem |-> s2.mem]
            ELSE IF SliceLen(r2.block1) > 0 /\ SliceLen(r2.block2) > 0
            THEN LET l == MergeLoop(r2.id, r2.block1, r2.block2, s2.mem, 0)
                 IN  [reader |-> [r2 EXCEPT !.block1 = l.block1, !.block2 = l.block2],
                      items |-> Slice(r2.id, 0, l.n), err |-> "nil", mem |-> l.mem]
            ELSE IF SliceLen(r2.block1) > 0
            THEN [reader |-> [r2 EXCEPT !.block1 = [r2.block1 EXCEPT !.hi = r2.block1.lo]],
                  items |-> r2.block1, err |-> "nil", mem |-> s2.mem]
            ELSE IF SliceLen(r2.block2) > 0
            THEN [reader |-> [r2 EXCEPT !.block2 = [r2.block2 EXCEPT !.hi = r2.block2.lo]],
                  items |-> r2.block2, err |-> "nil", mem |-> s2.mem]
            ELSE [reader |-> r2, items |-> NilSlice, err |-> "EOF", mem |-> s2.mem]

multiItemReader_ReadBlock(r, m) ==
    LET s1 == Refill(r.block1, r.reader1, m)
        r1 == [r EXCEPT !.block1 = s1.block, !.reader1 = s1.reader]
    IN  IF s1.err # "nil"
        THEN [reader |-> r1, items |-> NilSlice, err |-> s1.err, mem |-> s1.mem]
        ELSE
        LET s2 == Refill(r1.block2, r1.reader2, s1.mem)
            r2 == [r1 EXCEPT !.block2 = s2.block, !.reader2 = s2.reader]
        IN  IF s2.err # "nil"
            THEN [reader |-> r2, items |-> NilSlice, err |-> s2.err, mem |-> s2.mem]
            ELSE IF SliceLen(r2.block1) > 0 /\ SliceLen(r2.block2) > 0
            THEN LET l == MergeLoop(r2.id, r2.block1, r2.block2, s2.mem, 0)
                 IN  [reader |-> [r2 EXCEPT !.block1 = l.block1, !.block2 = l.block2],
                      items |-> Slice(r2.id, 0, l.n), err |-> "nil", mem |-> l.mem]
            ELSE IF SliceLen(r2.block1) > 0
            THEN [reader |-> [r2 EXCEPT !.block1 = [r2.block1 EXCEPT !.hi = r2.block1.lo]],
                  items |-> r2.block1, err |-> "nil", mem |-> s2.mem]
            ELSE IF SliceLen(r2.block2) > 0
            THEN [reader |-> [r2 EXCEPT !.block2 = [r2.block2 EXCEPT !.hi = r2.block2.lo]],
                  items |-> r2.block2, err |-> "nil", mem |-> s2.mem]
            ELSE [reader |-> r2, items |-> NilSlice, err |-> "EOF", mem |-> s2.mem]

\* An ItemReader that is neither of the package's two: it serves its array
\* m[r.id] in the blocks and with the errors of its script, one entry per
\* call, and io.EOF once the script is used up.  The object lives in the heap
\* under <<0, i>>: script, pos (entries used), off (postings served), eof
\* (has returned io.EOF) and late (was called after it returned io.EOF).
SourceKey(id) == <<0, id[1]>>

NewSourceReader(id) == [kind |-> "src", id |-> id]

NewSourceObject(script) ==
    [script |-> script, pos |-> 0, off |-> 0, eof |-> FALSE, late |-> FALSE]

sourceReader_ReadBlock(r, m) ==
    LET o == m[SourceKey(r.id)]
    IN  IF o.pos >= Len(o.script)
        THEN [reader |-> r, items |-> NilSlice, err |-> "EOF",
              mem |-> [m EXCEPT ![SourceKey(r.id)] =
                          [o EXCEPT !.eof = TRUE, !.late = o.eof]]]
        ELSE LET e == o.script[o.pos + 1]
             IN  [reader |-> r,
                  items |-> IF e.n = 0 THEN NilSlice ELSE Slice(r.id, o.off, o.off + e.n),
                  err |-> e.err,
                  mem |-> [m EXCEPT ![SourceKey(r.id)] =
                              [o EXCEPT !.pos = o.pos + 1, !.off = o.off + e.n,
                                        !.eof = o.eof \/ e.err = "EOF",
                                        !.late = o.late \/ o.eof]]]

ReadBlock(r, m) ==
    IF r.kind = "buf"
    THEN LET b == itemBufferReader_ReadBlock(r.pos, Len(m[r.id]))
         IN  [reader |-> [r EXCEPT !.pos = b.pos],
              items |-> IF b.err = "nil" THEN Slice(r.id, b.lo, b.hi) ELSE NilSlice,
              err |-> b.err, mem |-> m]
    ELSE IF r.kind = "src"
    THEN sourceReader_ReadBlock(r, m)
    ELSE multiItemReader_ReadBlock(r, m)

\* ------------------------------------------------------------------------
\* SpecMerge: MergeItemReaders over readers of sorted ItemBuffers, drained
\* by ReadAllItems, one loop iteration per step.
\* ------------------------------------------------------------------------
MaxMergeItems == 4

\* The postings the source buffers are filled from.
MergeItemValues == {Item(1, U32(1)), Item(1, U32(2)), Item(2, U32(1))}

\* The numbers of readers handed to MergeItemReaders.
ReaderCounts == {0, 1, 2, 3, 7}

\* What ItemBuffer.Reader() leaves in a buffer of at most n postings.
SortedBuffers(n) == {SortSlice(s) : s \in SeqsUpTo(MergeItemValues, n)}

\* The inputs: n sorted buffers holding at most budget postings together and
\* at most each postings apiece.
RECURSIVE MergeInputs(_, _, _)
MergeInputs(n, budget, each) ==
    IF n = 0 THEN {<<>>}
    ELSE UNION {{<<s>> \o rest : rest \in MergeInputs(n - 1, budget - Len(s), each)} :
                s \in SortedBuffers(IF budget < each THEN budget ELSE each)}

\* Up to three readers share MaxMergeItems postings in any way; seven
\* readers hold at most one posting apiece.
AllMergeInputs ==
    UNION {MergeInputs(n, MaxMergeItems, IF n > 3 THEN 1 ELSE MaxMergeItems) :
           n \in ReaderCounts}

ZeroItem == Item(0, U32(0))

\* The arrays before the first read: input i under <<i, i>>, a zeroed buf
\* under every other id.
InitMem(ss) ==
    [id \in {<<l, h>> : l \in 1..Len(ss), h \in 1..Len(ss)} |->
        IF id[1] = id[2] THEN ss[id[1]] ELSE [k \in 1..BufSize |-> ZeroItem]]

InitMerge ==
    /\ BufIdle
    /\ CodecIdle
    /\ seqs \in AllMergeInputs
    /\ root = NilReader
    /\ mem = InitMem(seqs)
    /\ acc = <<>>
    /\ pc = "start"
    /\ rerr = "nil"

\* reader := MergeItemReaders(readers...), each reader from ItemBuffer.Reader().
DoMergeItemReaders ==
    /\ pc = "start"
    /\ root' = MergeItemReaders([i \in 1..Len(seqs) |-> NewItemBufferReader(<<i, i>>)])
    /\ pc' = "loop"
    /\ UNCHANGED <<seqs, mem, acc, rerr, bufVars, codecVars>>

\* ReadAllItems(reader), one iteration of its loop (lines 27-36).
DoReadAllItemsIter ==
    /\ pc = "loop"
    /\ root.kind # "nil"
    /\ LET c == ReadBlock(root, mem)
       IN  /\ root' = c.reader
           /\ mem' = c.mem
           /\ acc' = acc \o SliceVals(c.items, c.mem)
           /\ pc' = IF c.err # "nil" THEN "return" ELSE "loop"
           /\ rerr' = IF c.err = "EOF" THEN "nil" ELSE c.err
    /\ UNCHANGED <<seqs, bufVars, codecVars>>

\* ReadAllItems(nil): reader.ReadBlock() on a nil interface value panics
\* (nil pointer dereference).
DoReadAllItemsNil ==
    /\ pc = "loop"
    /\ root.kind = "nil"
    /\ pc' = "panic"
    /\ UNCHANGED <<seqs, root, mem, acc, rerr, bufVars, codecVars>>

NextMerge == DoMergeItemReaders \/ DoReadAllItemsIter \/ DoReadAllItemsNil

SpecMerge == InitMerge /\ [][NextMerge]_vars

\* ------------------------------------------------------------------------
\* SpecSource: MergeItemReaders over arbitrary ItemReaders (the sources of
\* above), read either by ReadAllItems or by a caller that calls ReadBlock
\* itself and goes on after an error, until io.EOF.
\* ------------------------------------------------------------------------
MaxCalls == 3

\* What one ReadBlock of a source returns: n postings and an error.
ScriptEntries ==
    {[n |-> 0, err |-> "nil"], [n |-> 1, err |-> "nil"], [n |-> 2, err |-> "nil"],
     [n |-> 1, err |-> "EOF"], [n |-> 0, err |-> "ErrRead"]}

RECURSIVE ScriptItems(_)
ScriptItems(script) ==
    IF script = <<>> THEN 0 ELSE Head(script).n + ScriptItems(Tail(script))

\* The postings a source serves: the first postings of a sorted sequence, or
\* of one that is not sorted.
SourceItems(sorted, n) ==
    [k \in 1..n |-> IF sorted THEN Item((k + 1) \div 2, U32(k))
                    ELSE Item(1, U32(3 - (k % 3)))]

\* The scripts of n sources that answer at most calls calls together.
RECURSIVE SourceScripts(_, _)
SourceScripts(n, calls) ==
    IF n = 0 THEN {<<>>}
    ELSE UNION {{<<sc>> \o rest : rest \in SourceScripts(n - 1, calls - Len(sc))} :
                sc \in SeqsUpTo(ScriptEntries, calls)}

\* One, two or three sources; the first serves sorted or unsorted postings,
\* the others sorted ones.
AllSourceInputs ==
    {[i \in 1..Len(scs) |->
         [script |-> scs[i],
          items |-> SourceItems(i > 1 \/ sorted, ScriptItems(scs[i]))]] :
        scs \in UNION {SourceScripts(n, MaxCalls) : n \in {1, 2, 3}},
        sorted \in BOOLEAN}

InitSourceMem(ss) ==
    [id \in {<<l, h>> : l \in 0..Len(ss), h \in 1..Len(ss)} |->
        IF id[1] = 0 THEN NewSourceObject(ss[id[2]].script)
        ELSE IF id[1] = id[2] THEN ss[id[1]].items
        ELSE [k \in 1..BufSize |-> ZeroItem]]

InitSource ==
    /\ BufIdle
    /\ CodecIdle
    /\ \E ss \in AllSourceInputs :
          /\ seqs = [i \in 1..Len(ss) |-> ss[i].items]
          /\ mem = InitSourceMem(ss)
    /\ root = NilReader
    /\ acc = <<>>
    /\ pc = "start"
    /\ rerr = "nil"

\* reader := MergeItemReaders(readers...), then either ReadAllItems(reader)
\* ("loop") or the caller's own ReadBlock calls ("calls").
DoMergeSources ==
    /\ pc = "start"
    /\ root' = MergeItemReaders([i \in 1..Len(seqs) |-> NewSourceReader(<<i, i>>)])
    /\ pc' \in {"loop", "calls"}
    /\ UNCHANGED <<seqs, mem, acc, rerr, bufVars, codecVars>>

\* items, err := reader.ReadBlock() by a caller that collects the blocks and
\* stops at io.EOF only.
DoReadBlock ==
    /\ pc = "calls"
    /\ LET c == ReadBlock(root, mem)
       IN  /\ root' = c.reader
           /\ mem' = c.mem
           /\ acc' = acc \o SliceVals(c.items, c.mem)
           /\ pc' = IF c.err = "EOF" THEN "return" ELSE "calls"
           /\ rerr' = c.err
    /\ UNCHANGED <<seqs, bufVars, codecVars>>

NextSource == DoMergeSources \/ DoReadAllItemsIter \/ DoReadBlock

SpecSource == InitSource /\ [][NextSource]_vars

\* ------------------------------------------------------------------------
\* Fingerprint codec
\* ------------------------------------------------------------------------
\* The width of a hash: Hashes []uint32.  A hash is held as the set of the
\* indices (0 = least significant) of its set bits.
HashBits == 32

XorHash(a, b) == (a \ b) \cup (b \ a)

RECURSIVE Pow2(_)
Pow2(n) == IF n = 0 THEN 1 ELSE 2 * Pow2(n - 1)

\* int8 arithmetic wraps.
Int8(x) == ((x + 128) % 256) - 128

\* A bit string, most significant bit first, and its value.
ValueBits(width, v) == [i \in 1..width |-> (v \div Pow2(width - i)) % 2]

RECURSIVE BitsValue(_)
BitsValue(bs) ==
    IF bs = <<>> THEN 0
    ELSE 2 * BitsValue(SubSeq(bs, 1, Len(bs) - 1)) + bs[Len(bs)]

RECURSIVE BitString(_, _)
BitString(width, values) ==
    IF values = <<>> THEN <<>>
    ELSE ValueBits(width, Head(values)) \o BitString(width, Tail(values))

\* unpack(width, data): the successive width-bit integers of the bit stream
\* of data, until the stream is exhausted.
unpackIntArray(width, data) ==
    LET bs == BitString(8, data)
        n == (Len(data) * 8) \div width
    IN  [k \in 1..n |-> BitsValue(SubSeq(bs, (k - 1) * width + 1, k * width))]

unpackInt3Array(data) == unpackIntArray(3, data)
unpackInt5Array(data) == unpackIntArray(5, data)

\* pack(width, codes): the inverse, the last partial byte padded with zeros.
packIntArray(width, codes) ==
    LET bs == BitString(width, codes)
        n == (Len(bs) + 7) \div 8
        padded == bs \o [i \in 1..(n * 8 - Len(bs)) |-> 0]
    IN  [k \in 1..n |-> BitsValue(SubSeq(padded, (k - 1) * 8 + 1, k * 8))]

\* The codes of one value: the distance of each set bit from the one before
\* (from position 0 for the first), then the terminator 0.
RECURSIVE HashDeltas(_, _, _)
HashDeltas(h, i, last) ==
    IF i >= HashBits THEN <<0>>
    ELSE IF i \in h THEN <<(i + 1) - last>> \o HashDeltas(h, i + 1, i + 1)
    ELSE HashDeltas(h, i + 1, last)

RECURSIVE FingerprintDeltas(_, _)
FingerprintDeltas(hashes, i) ==
    IF i > Len(hashes) THEN <<>>
    ELSE HashDeltas(IF i = 1 THEN hashes[1] ELSE XorHash(hashes[i], hashes[i - 1]), 0, 0)
            \o FingerprintDeltas(hashes, i + 1)

\* Fingerprint encode: the header, the packed 3-bit codes, the packed 5-bit
\* exceptional values (delta - 7 for every delta above 6).
EncodeFingerprint(fp) ==
    LET deltas == FingerprintDeltas(fp.Hashes, 1)
        normal == [k \in 1..Len(deltas) |-> IF deltas[k] > 6 THEN 7 ELSE deltas[k]]
        large == SelectSeq(deltas, LAMBDA d : d > 6)
        exceptional == [k \in 1..Len(large) |-> large[k] - 7]
        n == Len(fp.Hashes)
    IN  <<fp.Version, (n \div 65536) % 256, (n \div 256) % 256, n % 256>>
            \o packIntArray(3, normal) \o packIntArray(5, exceptional)

\* The scan of lines 82-95 from bits[bi] on: whether totalValues terminators
\* were seen, the length bits is truncated to, and the 7-codes counted.
RECURSIVE ScanBits(_, _, _, _, _)
ScanBits(bits, bi, numValues, numExceptionalBits, totalValues) ==
    IF bi > Len(bits)
    THEN [numValues |-> numValues, len |-> Len(bits),
          numExceptionalBits |-> numExceptionalBits]
    ELSE IF bits[bi] = 0
    THEN IF numValues + 1 = totalValues
         THEN [numValues |-> numValues + 1, len |-> bi,
               numExceptionalBits |-> numExceptionalBits]
         ELSE ScanBits(bits, bi + 1, numValues + 1, numExceptionalBits, totalValues)
    ELSE IF bits[bi] = 7
    THEN ScanBits(bits, bi + 1, numValues, numExceptionalBits + 1, totalValues)
    ELSE ScanBits(bits, bi + 1, numValues, numExceptionalBits, totalValues)

\* Lines 106-112: every 7-code gets the next exceptional value added.
RECURSIVE AddExceptional(_, _, _, _)
AddExceptional(bits, exceptionalBits, bi, ei) ==
    IF bi > Len(bits) THEN bits
    ELSE IF bits[bi] = 7
    THEN AddExceptional([bits EXCEPT ![bi] = Int8(@ + exceptionalBits[ei + 1])],
                        exceptionalBits, bi + 1, ei + 1)
    ELSE AddExceptional(bits, exceptionalBits, bi + 1, ei)

\* Lines 116-130: hashes[hi] of the code is hashes[hi + 1] here.
RECURSIVE RebuildHashes(_, _, _, _, _)
RebuildHashes(bits, k, hashes, hi, lastBit) ==
    IF k > Len(bits) THEN hashes
    ELSE IF bits[k] = 0
    THEN RebuildHashes(bits, k + 1,
                       IF hi > 0
                       THEN [hashes EXCEPT ![hi + 1] = XorHash(@, hashes[hi])]
                       ELSE hashes,
                       hi + 1, 0)
    ELSE LET lb == Int8(lastBit + bits[k])
             shift == Int8(lb - 1)
         IN  RebuildHashes(bits, k + 1,
                           [hashes EXCEPT ![hi + 1] =
                               IF shift >= 0 /\ shift < HashBits THEN @ \cup {shift} ELSE @],
                           hi, lb)

\* Lines 118-128: the values lastBit + bit takes at the nonzero codes, before
\* the sum is stored back into the int8 lastBit.
RECURSIVE LastBits(_, _, _)
LastBits(bits, k, lastBit) ==
    IF k > Len(bits) THEN <<>>
    ELSE IF bits[k] = 0 THEN LastBits(bits, k + 1, 0)
    ELSE <<lastBit + bits[k]>> \o LastBits(bits, k + 1, Int8(lastBit + bits[k]))

Failed(kind) == [status |-> "error", err |-> kind, fp |-> NoFingerprint]
Panicked(what) == [status |-> "panic", err |-> what, fp |-> NoFingerprint]

\* The offset added at line 89 for n codes.
NormalBytesLen(n) == (n * 3 + 8) \div 8

\* unpackFingerprint(data, fp); wantFp is fp != nil.
unpackFingerprint(data, wantFp) ==
    IF Len(data) < 4 THEN Failed("ErrInvalidFingerprint")
    ELSE
    LET version == data[1]
        totalValues == data[2] * 65536 + data[3] * 256 + data[4]
    IN  IF totalValues = 0 THEN Failed("ErrInvalidFingerprint")
        ELSE
        LET scan == ScanBits(unpackInt3Array(SubSeq(data, 5, Len(data))), 1, 0, 0, totalValues)
            bits == SubSeq(unpackInt3Array(SubSeq(data, 5, Len(data))), 1, scan.len)
            offset == 4 + NormalBytesLen(scan.len)
        IN  IF scan.numValues # totalValues THEN Failed("ErrInvalidFingerprint")
            ELSE IF scan.numExceptionalBits > 0 /\ offset > Len(data)
            THEN Panicked("slice bounds out of range")
            ELSE
            LET exceptionalBits ==
                    IF scan.numExceptionalBits > 0
                    THEN unpackInt5Array(SubSeq(data, offset + 1, Len(data)))
                    ELSE <<>>
            IN  IF Len(exceptionalBits) # scan.numExceptionalBits
                THEN Failed("ErrInvalidFingerprint")
                ELSE IF ~wantFp
                THEN [status |-> "ok", err |-> "nil", fp |-> NoFingerprint]
                ELSE [status |-> "ok", err |-> "nil",
                      fp |-> [Version |-> version,
                              Hashes |-> RebuildHashes(
                                  AddExceptional(bits, exceptionalBits, 1, 0), 1,
                                  [i \in 1..totalValues |-> {}], 0, 0)]]

\* Lines 81-112 on data that unpackFingerprint accepts: bits as the loop of
\* lines 119-130 finds it.
ResolvedBits(data) ==
    LET totalValues == data[2] * 65536 + data[3] * 256 + data[4]
        all == unpackInt3Array(SubSeq(data, 5, Len(data)))
        scan == ScanBits(all, 1, 0, 0, totalValues)
        bits == SubSeq(all, 1, scan.len)
        offset == 4 + NormalBytesLen(scan.len)
    IN  IF scan.numExceptionalBits > 0
        THEN AddExceptional(bits, unpackInt5Array(SubSeq(data, offset + 1, Len(data))), 1, 0)
        ELSE bits

ParseFingerprint(data) == unpackFingerprint(data, TRUE)

\* ValidateFingerprint reports whether unpackFingerprint(data, nil) succeeded.
ValidateFingerprintHeaderOnly(data) ==
    IF Len(data) < 4 \/ (data[2] = 0 /\ data[3] = 0 /\ data[4] = 0)
    THEN Failed("ErrInvalidFingerprint")
    ELSE [status |-> "ok", err |-> "nil", fp |-> NoFingerprint]

ValidateFingerprint(data) == unpackFingerprint(data, FALSE)

\* A fingerprint string is a sequence of characters: 0..63 for the character
\* of the URL-safe alphabet with that value, -1 for any character outside the
\* alphabet, -2 for a line break (which encoding/base64 skips).
RECURSIVE Chunk8(_)
Chunk8(bs) ==
    IF Len(bs) < 8 THEN <<>>
    ELSE <<BitsValue(SubSeq(bs, 1, 8))>> \o Chunk8(SubSeq(bs, 9, Len(bs)))

\* base64.RawURLEncoding.DecodeString
Base64Decode(str) ==
    LET chars == SelectSeq(str, LAMBDA c : c # -2)
    IN  IF (\E i \in 1..Len(chars) : chars[i] = -1) \/ Len(chars) % 4 = 1
        THEN [err |-> "base64.CorruptInputError", data |-> <<>>]
        ELSE [err |-> "nil", data |-> Chunk8(BitString(6, chars))]

\* base64.RawURLEncoding.EncodeToString
Base64Encode(data) ==
    LET bs == BitString(8, data)
        n == (Len(bs) + 5) \div 6
        padded == bs \o [i \in 1..(n * 6 - Len(bs)) |-> 0]
    IN  [k \in 1..n |-> BitsValue(SubSeq(padded, (k - 1) * 6 + 1, k * 6))]

DecodeFingerprintString(str) ==
    IF Len(str) = 0
    THEN [err |-> "ErrInvalidFingerprint", data |-> <<>>]
    ELSE Base64Decode(str)

EncodeFingerprintToString(data) == Base64Encode(data)

\* errors.Wrap keeps the cause, which is the kind recorded.
ParseFingerprintString(str) ==
    LET d == DecodeFingerprintString(str)
    IN  IF d.err # "nil" THEN Failed(d.err) ELSE ParseFingerprint(d.data)

ValidateFingerprintString(str) ==
    LET d == DecodeFingerprintString(str)
    IN  IF d.err # "nil" THEN Failed(d.err) ELSE ValidateFingerprint(d.data)

\* ------------------------------------------------------------------------
\* SpecCodec: a caller holding a Fingerprint, binary data or a string, and
\* calling the entry points of the package on it.
\* ------------------------------------------------------------------------
MaxHashes == 3
MaxBody == 3
MaxTextLen == 4

\* 0, 5, 9, 0x7f, 0x1fc0, 0x80000000
HashValues == {{}, {0, 2}, {0, 3}, 0..6, 6..12, {31}}

Fingerprints ==
    {[Version |-> v, Hashes |-> h] :
        v \in {0, 1, 255}, h \in SeqsUpTo(HashValues, MaxHashes) \ {<<>>}}

HeaderBytes == {<<v, 0, 0, t>> : v \in {0, 255}, t \in {0, 1, 2}} \cup {<<1, 0, 1, 0>>}
BodyBytes == {0, 72, 146, 228, 255}

\* Codes 6,6,6,6,6,6,0: six set bits at a distance of 6 in one value.
DenseBodies == {<<219, 109, 128>>}

RawBuffers ==
    SeqsUpTo({0, 1}, 3)
        \cup {h \o b : h \in HeaderBytes, b \in SeqsUpTo(BodyBytes, MaxBody)}
        \cup {h \o b : h \in HeaderBytes, b \in DenseBodies}

RawTexts == SeqsUpTo({0, 1, 16, -1, -2}, MaxTextLen)

InitCodec ==
    /\ BufIdle
    /\ MergeIdle
    /\ cres = NoResult
    /\ \/ cstage = "fp" /\ cfp \in Fingerprints /\ cdata = <<>> /\ ctext = <<>>
       \/ cstage = "bytes" /\ cfp = NoFingerprint /\ cdata \in RawBuffers /\ ctext = <<>>
       \/ cstage = "text" /\ cfp = NoFingerprint /\ cdata = <<>> /\ ctext \in RawTexts

Called(entry, r) ==
    [entry |-> entry, status |-> r.status, err |-> r.err, fp |-> r.fp]

DoEncodeFingerprint ==
    /\ cstage = "fp"
    /\ cdata' = EncodeFingerprint(cfp)
    /\ cstage' = "bytes"
    /\ UNCHANGED <<cfp, ctext, cres, bufVars, mergeVars>>

DoParseFingerprint ==
    /\ cstage = "bytes"
    /\ cres' = Called("ParseFingerprint", ParseFingerprint(cdata))
    /\ cstage' = "done"
    /\ UNCHANGED <<cfp, cdata, ctext, bufVars, mergeVars>>

DoValidateFingerprint ==
    /\ cstage = "bytes"
    /\ cres' = Called("ValidateFingerprint", ValidateFingerprint(cdata))
    /\ cstage' = "done"
    /\ UNCHANGED <<cfp, cdata, ctext, bufVars, mergeVars>>

DoEncodeFingerprintToString ==
    /\ cstage = "bytes"
    /\ ctext' = EncodeFingerprintToString(cdata)
    /\ cstage' = "text"
    /\ UNCHANGED <<cfp, cdata, cres, bufVars, mergeVars>>

DoDecodeFingerprintString ==
    /\ cstage = "text"
    /\ LET d == DecodeFingerprintString(ctext)
       IN  /\ cres' = [entry |-> "DecodeFingerprintString",
                       status |-> IF d.err = "nil" THEN "ok" ELSE "error",
                       err |-> d.err, fp |-> NoFingerprint]
           /\ cdata' = d.data
    /\ cstage' = "done"
    /\ UNCHANGED <<cfp, ctext, bufVars, mergeVars>>

DoParseFingerprintString ==
    /\ cstage = "text"
    /\ cres' = Called("ParseFingerprintString", ParseFingerprintString(ctext))
    /\ cstage' = "done"
    /\ UNCHANGED <<cfp, cdata, ctext, bufVars, mergeVars>>

DoValidateFingerprintString ==
    /\ cstage = "text"
    /\ cres' = Called("ValidateFingerprintString", ValidateFingerprintString(ctext))
    /\ cstage' = "done"
    /\ UNCHANGED <<cfp, cdata, ctext, bufVars, mergeVars>>

NextCodec ==
    \/ DoEncodeFingerprint
    \/ DoParseFingerprint
    \/ DoValidateFingerprint
    \/ DoEncodeFingerprintToString
    \/ DoDecodeFingerprintString
    \/ DoParseFingerprintString
    \/ DoValidateFingerprintString

SpecCodec == InitCodec /\ [][NextCodec]_vars

\* ------------------------------------------------------------------------
\* Properties of the ItemBuffer (checked under SpecBuf)
\* ------------------------------------------------------------------------
HasDoc(b, docID) == \E i \in 1..Len(b.items) : b.items[i].DocID = docID

\* (term, docID) lexicographic order, stated apart from the code's Less.
LexLE(a, b) == a.Term < b.Term \/ (a.Term = b.Term /\ LeU32(a.DocID, b.DocID))
IsSortedItems(s) == \A i \in 1..(Len(s) - 1) : LexLE(s[i], s[i + 1])

RECURSIVE BagOfSeq(_)
BagOfSeq(s) ==
    IF s = <<>> THEN EmptyBag ELSE BagOfSeq(Tail(s)) (+) SetToBag({Head(s)})

\* C3: whenever NumDocs() > 0, MinDocID() <= MaxDocID().
C3_MinLeMaxWhenDocs ==
    NumDocs(ib) > 0 => LeU32(MinDocID(ib), MaxDocID(ib))

\* C4: Empty() returns true exactly when NumDocs() = 0.
C4_EmptyIffNoDocs ==
    Empty(ib) <=> (NumDocs(ib) = 0)

\* C5: a Delete(docID) on a buffer holding no posting with that docID returns
\* false and leaves items, numDocs, minDocID and maxDocID as they were.
C5_DeleteAbsentUnchanged ==
    [][(op'.name = "Delete" /\ ~HasDoc(ib, op'.docID))
          => (op'.ret = FALSE /\ ib' = ib)]_vars

\* C5 witness: a Delete that returned false for a docID inside
\* [minDocID, maxDocID] of a buffer that holds postings, none with that docID.
C5_Witness ==
    /\ op.name = "Delete"
    /\ op.ret = FALSE
    /\ Len(ib.items) > 0
    /\ ~HasDoc(ib, op.docID)
    /\ LtU32(ib.minDocID, op.docID)
    /\ LtU32(op.docID, ib.maxDocID)

\* C6: after a successful Delete(docID) with docID equal to the minDocID or
\* maxDocID held before the call, the bounds are the smallest and largest
\* docID of the remaining postings, or both 0 when no posting remains.
C6_DeleteRecomputesBounds ==
    [][(/\ op'.name = "Delete"
        /\ op'.ret
        /\ (op'.docID = ib.minDocID \/ op'.docID = ib.maxDocID))
          => IF Len(ib'.items) > 0
             THEN /\ HasDoc(ib', ib'.minDocID)
                  /\ HasDoc(ib', ib'.maxDocID)
                  /\ \A i \in 1..Len(ib'.items) :
                        /\ LeU32(ib'.minDocID, ib'.items[i].DocID)
                        /\ LeU32(ib'.items[i].DocID, ib'.maxDocID)
             ELSE ib'.minDocID = U32(0) /\ ib'.maxDocID = U32(0)]_vars

\* C7: draining the reader returned by Reader() yields every posting of the
\* buffer in non-decreasing (term, docID) order, and Reader() keeps the
\* buffer's postings (it only reorders them).
C7_ReaderDrainSorted ==
    /\ []((op.name = "ReadAll" /\ op.fresh)
            => (op.ret /\ IsSortedItems(out) /\ out = ib.items))
    /\ [][op'.name = "Reader" => BagOfSeq(ib'.items) = BagOfSeq(ib.items)]_vars

\* C7 witness: a full drain of a reader obtained after the buffer was mutated
\* since an earlier Reader(), over postings of several terms and docIDs.
C7_Witness ==
    /\ op.name = "ReadAll"
    /\ op.fresh
    /\ rd.again
    /\ Len(out) = MaxItems
    /\ \E i, j \in 1..Len(out) :
          out[i].Term # out[j].Term /\ out[i].DocID # out[j].DocID

\* C19: in every state reached by Add, Delete and Reset each posting's docID
\* lies within [MinDocID, MaxDocID]; so the range test of Delete never
\* rejects a docID that has postings, and Delete(docID) returns true exactly
\* when the buffer held a posting with that docID.
C19_PostingsWithinBounds ==
    /\ [](\A i \in 1..Len(ib.items) :
            /\ LeU32(MinDocID(ib), ib.items[i].DocID)
            /\ LeU32(ib.items[i].DocID, MaxDocID(ib)))
    /\ [][op'.name = "Delete" => (op'.ret <=> HasDoc(ib, op'.docID))]_vars

\* C19 witness: a Delete of the smallest docID returned true and left a
\* posting, above the docID deleted.
C19_Witness ==
    /\ op.name = "Delete"
    /\ op.ret
    /\ Len(ib.items) > 0
    /\ LtU32(op.docID, MinDocID(ib))

\* ------------------------------------------------------------------------
\* Properties of MergeItemReaders and ReadAllItems (checked under SpecMerge)
\* ------------------------------------------------------------------------
RECURSIVE Concat(_)
Concat(ss) == IF ss = <<>> THEN <<>> ELSE Head(ss) \o Concat(Tail(ss))

\* C1: draining MergeItemReaders over readers of 0, 1, 2, 3 or 7 sorted
\* sequences with ReadAllItems yields the postings of all inputs in
\* (term, docID) order: what has been read is sorted at every moment, and
\* what ReadAllItems returns is the multiset union of the inputs.
C1_MergeYieldsSortedUnion ==
    /\ IsSortedItems(acc)
    /\ pc = "return" => (rerr = "nil" /\ BagOfSeq(acc) = BagOfSeq(Concat(seqs)))

\* C8: with zero readers, MergeItemReaders returns a reader on which
\* ReadAllItems completes with an empty result.
C8_ZeroReadersNoOp ==
    (Len(seqs) = 0 /\ pc \in {"return", "panic"})
        => (pc = "return" /\ rerr = "nil" /\ acc = <<>>)

\* The call r.ReadBlock() and every ReadBlock it makes below r return at
\* least one posting or io.EOF.
RECURSIVE Productive(_, _)
Productive(r, m) ==
    /\ SliceLen(ReadBlock(r, m).items) > 0 \/ ReadBlock(r, m).err = "EOF"
    /\ r.kind = "multi"
          => /\ (SliceLen(r.block1) = 0 /\ r.reader1.kind # "nil")
                   => Productive(r.reader1, m)
             /\ (SliceLen(r.block2) = 0 /\ r.reader2.kind # "nil")
                   => Productive(r.reader2, Refill(r.block1, r.reader1, m).mem)

\* C20: over one or more ItemBuffer readers, every ReadBlock call in the
\* tree returns at least one posting or io.EOF, and ReadAllItems returns
\* after finitely many calls: each iteration of its loop either returns or
\* adds a posting, and the postings read never outnumber those held.
C20_DrainTerminates ==
    /\ []((pc = "loop" /\ root.kind # "nil") => Productive(root, mem))
    /\ [](Len(seqs) >= 1 => Len(acc) <= Len(Concat(seqs)))
    /\ [][(pc = "loop" /\ Len(seqs) >= 1)
            => (pc' = "return" \/ Len(acc') > Len(acc))]_vars

\* C20 witness: ReadAllItems has returned all postings of three buffers.
C20_Witness ==
    /\ pc = "return"
    /\ Len(seqs) = 3
    /\ \A i \in 1..3 : Len(seqs[i]) >= 1
    /\ Len(acc) = MaxMergeItems

\* The two pending blocks b1 and b2 merged smallest head first, the head of
\* b1 on a tie, until n postings are out or one block is used up.
RECURSIVE SmallestFirst(_, _, _)
SmallestFirst(b1, b2, n) ==
    IF n = 0 \/ b1 = <<>> \/ b2 = <<>> THEN <<>>
    ELSE IF LexLE(Head(b1), Head(b2))
    THEN <<Head(b1)>> \o SmallestFirst(Tail(b1), b2, n - 1)
    ELSE <<Head(b2)>> \o SmallestFirst(b1, Tail(b2), n - 1)

\* C14: when both sides of a multiItemReader have pending postings, every
\* posting written to the output block is the smaller of the two pending
\* heads in (term, docID) order, the left one on an exact tie; on equal terms
\* the head with the smaller docID comes first.
C14_MergePicksSmallerHead ==
    [][(pc = "loop" /\ root.kind = "multi")
          => LET s1 == Refill(root.block1, root.reader1, mem)
                 s2 == Refill(root.block2, root.reader2, s1.mem)
                 b1 == SliceVals(s1.block, s2.mem)
                 b2 == SliceVals(s2.block, s2.mem)
             IN  (b1 # <<>> /\ b2 # <<>>)
                    => SubSeq(acc', Len(acc) + 1, Len(acc'))
                          = SmallestFirst(b1, b2, BufSize)]_vars

\* ------------------------------------------------------------------------
\* Properties of the merge over arbitrary readers (checked under SpecSource)
\* ------------------------------------------------------------------------
\* C12: when a ReadBlock of the tree fails with an error other than io.EOF,
\* the caller gets that error; a multiItemReader returns no postings with
\* it, and ReadAllItems returns at once, with that error and no postings.
C12_ReadErrorNoPartialResult ==
    [][(pc \in {"loop", "calls"} /\ ReadBlock(root, mem).err = "ErrRead")
          => /\ rerr' = "ErrRead"
             /\ root.kind = "multi" => acc' = acc
             /\ pc = "loop" => (pc' = "return" /\ acc' = <<>>)]_vars

\* The state of source i, and the sources below the reader r.
SourceObject(m, i) == m[<<0, i>>]
SourcesBelow(r) == IF r.kind = "nil" THEN {} ELSE r.id[1]..r.id[2]

\* The postings pending in the blocks of the tree under r.
RECURSIVE PendingBag(_, _)
PendingBag(r, m) ==
    IF r.kind # "multi" THEN EmptyBag
    ELSE BagOfSeq(SliceVals(r.block1, m)) (+) BagOfSeq(SliceVals(r.block2, m))
            (+) PendingBag(r.reader1, m) (+) PendingBag(r.reader2, m)

\* The postings the sources have served so far.
RECURSIVE ServedBag(_, _, _)
ServedBag(ss, m, i) ==
    IF i > Len(ss) THEN EmptyBag
    ELSE BagOfSeq(SubSeq(ss[i], 1, SourceObject(m, i).off)) (+) ServedBag(ss, m, i + 1)

\* What the next ReadBlock of source i returns, from its script alone.
NextServed(ss, m, i) ==
    LET o == SourceObject(m, i)
    IN  IF o.pos >= Len(o.script) THEN <<>>
        ELSE SubSeq(ss[i], o.off + 1, o.off + o.script[o.pos + 1].n)

\* C13: when the read of one side of a multiItemReader fails with an error
\* other than io.EOF, the other side keeps its pending block and its source
\* as they were, or, when side 1 was refilled in the same call, holds the
\* block just read; and no posting is lost or duplicated afterwards: the
\* postings handed out and those still pending are those the sources served.
C13_FailureKeepsOtherSide ==
    /\ [][(pc \in {"loop", "calls"} /\ root.kind = "multi"
             /\ ReadBlock(root, mem).err = "ErrRead")
            => IF Refill(root.block1, root.reader1, mem).err # "nil"
               THEN /\ root'.block2 = root.block2
                    /\ root'.reader2 = root.reader2
                    /\ SliceVals(root'.block2, mem') = SliceVals(root.block2, mem)
                    /\ \A i \in SourcesBelow(root.reader2) :
                          SourceObject(mem', i) = SourceObject(mem, i)
               ELSE IF SliceLen(root.block1) > 0 \/ root.reader1.kind = "nil"
               THEN /\ root'.block1 = root.block1
                    /\ root'.reader1 = root.reader1
                    /\ SliceVals(root'.block1, mem') = SliceVals(root.block1, mem)
                    /\ \A i \in SourcesBelow(root.reader1) :
                          SourceObject(mem', i) = SourceObject(mem, i)
               ELSE SliceVals(root'.block1, mem') = NextServed(seqs, mem, 1)]_vars
    /\ [](pc \in {"loop", "calls", "return"}
            => BagOfSeq(acc) (+) PendingBag(root, mem) = ServedBag(seqs, mem, 1))

\* C13 witness: a call in which side 1 was refilled with a posting and the
\* read of side 2 then failed; the posting is pending on side 1.
C13_Witness ==
    /\ pc = "calls"
    /\ rerr = "ErrRead"
    /\ root.kind = "multi"
    /\ SliceLen(root.block1) > 0
    /\ SourceObject(mem, 1).pos = 1
    /\ SourceObject(mem, 2).pos = 1
    /\ acc = <<>>

\* C15: a multiItemReader returns io.EOF only when both its pending blocks
\* are empty and every source below it has returned io.EOF, whatever the
\* sources do within the ItemReader contract (an empty block without io.EOF
\* included).
C15_EofOnlyWhenSourcesExhausted ==
    [][(pc \in {"loop", "calls"} /\ root.kind = "multi"
          /\ ReadBlock(root, mem).err = "EOF")
          => /\ SliceLen(root'.block1) = 0
             /\ SliceLen(root'.block2) = 0
             /\ \A i \in SourcesBelow(root) : SourceObject(mem', i).eof]_vars

\* In the step from heap m to heap m2, every multiItemReader under r had an
\* empty pending block on each side below which a source was read.
RECURSIVE ReadsOnlyWhenEmpty(_, _, _)
ReadsOnlyWhenEmpty(r, m, m2) ==
    r.kind = "multi"
        => /\ (\E i \in SourcesBelow(r.reader1) : SourceObject(m2, i) # SourceObject(m, i))
                 => SliceLen(r.block1) = 0
           /\ (\E i \in SourcesBelow(r.reader2) : SourceObject(m2, i) # SourceObject(m, i))
                 => SliceLen(r.block2) = 0
           /\ ReadsOnlyWhenEmpty(r.reader1, m, m2)
           /\ ReadsOnlyWhenEmpty(r.reader2, m, m2)

\* C16: over the ReadBlock calls on a multiItemReader, a source is read only
\* when the pending block of its side is empty; a source that has returned
\* io.EOF is dropped and never read again; and the postings it returned with
\* io.EOF are handed out: when the tree signals end-of-stream, every posting
\* the sources served has been returned.
C16_SourceReadDiscipline ==
    /\ [][(pc \in {"loop", "calls"}) => ReadsOnlyWhenEmpty(root, mem, mem')]_vars
    /\ [][(pc \in {"loop", "calls"} /\ root.kind = "multi")
            => \A i \in 1..Len(seqs) :
                  (SourceObject(mem', i).eof /\ ~SourceObject(mem, i).eof)
                     => /\ root.reader1 = NewSourceReader(<<i, i>>)
                              => root'.reader1 = NilReader
                        /\ root.reader2 = NewSourceReader(<<i, i>>)
                              => root'.reader2 = NilReader]_vars
    /\ [](\A i \in 1..Len(seqs) : pc # "start" => ~SourceObject(mem, i).late)
    /\ []((pc = "return" /\ rerr \in {"nil", "EOF"})
            => BagOfSeq(acc) = ServedBag(seqs, mem, 1))

\* C16 witness: source 1 returned a posting together with io.EOF, source 2
\* was read twice, and the drain ended with all three postings handed out.
C16_Witness ==
    /\ pc = "return"
    /\ rerr \in {"nil", "EOF"}
    /\ root.kind = "multi"
    /\ SourceObject(mem, 1).script = <<[n |-> 1, err |-> "EOF"]>>
    /\ SourceObject(mem, 1).pos = 1
    /\ SourceObject(mem, 2).pos = 2
    /\ SourceObject(mem, 2).off = 2
    /\ Len(acc) = 3

\* The postings a source holds: those its script serves up to its io.EOF.
RECURSIVE InputLen(_)
InputLen(script) ==
    IF script = <<>> THEN 0
    ELSE Head(script).n + (IF Head(script).err = "EOF" THEN 0 ELSE InputLen(Tail(script)))

RECURSIVE InputBag(_, _, _)
InputBag(ss, m, i) ==
    IF i > Len(ss) THEN EmptyBag
    ELSE BagOfSeq(SubSeq(ss[i], 1, InputLen(SourceObject(m, i).script)))
            (+) InputBag(ss, m, i + 1)

NeverFails(m, i) ==
    \A k \in 1..Len(SourceObject(m, i).script) :
        SourceObject(m, i).script[k].err # "ErrRead"

\* C18: over one or more sources that never fail, sorted or not, the
\* postings returned by the ReadBlock calls on the tree up to io.EOF are the
\* multiset union of the sources' postings.
C18_MergeKeepsMultiset ==
    (pc = "return" /\ \A i \in 1..Len(seqs) : NeverFails(mem, i))
        => BagOfSeq(acc) = InputBag(seqs, mem, 1)

\* ------------------------------------------------------------------------
\* Properties of the fingerprint codec (checked under SpecCodec)
\* ------------------------------------------------------------------------
\* C2: ParseFingerprint on the encoding of a fingerprint returns that
\* fingerprint: the same version and the same hashes in the same order.
C2_DecodeEncodeRoundTrip ==
    (cres.entry = "ParseFingerprint" /\ cfp # NoFingerprint)
        => (cres.status = "ok" /\ cres.fp = cfp)

\* C9: on every byte buffer ParseFingerprint and ValidateFingerprint either
\* succeed or fail with ErrInvalidFingerprint, and fail so on a buffer of
\* fewer than 4 bytes or with a zero value count.
C9_BinaryDecodeFailsOnlyInvalid ==
    cres.entry \in {"ParseFingerprint", "ValidateFingerprint"}
        => /\ cres.status \in {"ok", "error"}
           /\ cres.status = "error" => cres.err = "ErrInvalidFingerprint"
           /\ Len(cdata) < 4 => cres.status = "error"
           /\ (Len(cdata) >= 4 /\ cdata[2] = 0 /\ cdata[3] = 0 /\ cdata[4] = 0)
                 => cres.status = "error"

\* C10: every failure of DecodeFingerprintString and ParseFingerprintString
\* is of the kind ErrInvalidFingerprint.
C10_TextDecodeFailsOnlyInvalid ==
    (cres.entry \in {"DecodeFingerprintString", "ParseFingerprintString"}
        /\ cres.status # "ok")
        => cres.err = "ErrInvalidFingerprint"

\* The 7-codes among the codes of data up to its last terminator.
ExceptionalCodes(data) ==
    IF Len(data) < 4 THEN 0
    ELSE ScanBits(unpackInt3Array(SubSeq(data, 5, Len(data))), 1, 0, 0,
                  data[2] * 65536 + data[3] * 256 + data[4]).numExceptionalBits

\* C11: on every byte buffer ValidateFingerprint returns true exactly when
\* ParseFingerprint succeeds, and the two fail in the same way.
C11_ValidateAgreesWithParse ==
    /\ cres.entry = "ValidateFingerprint"
          => /\ cres.status = ParseFingerprint(cdata).status
             /\ cres.err = ParseFingerprint(cdata).err
    /\ cres.entry = "ParseFingerprint"
          => /\ cres.status = ValidateFingerprint(cdata).status
             /\ cres.err = ValidateFingerprint(cdata).err

\* C11 witness: ValidateFingerprint returned true on a buffer whose codes
\* include exceptional ones, so that the whole procedure was run.
C11_Witness ==
    /\ cres.entry = "ValidateFingerprint"
    /\ cres.status = "ok"
    /\ cfp = NoFingerprint
    /\ ExceptionalCodes(cdata) > 0

\* C17: on every byte buffer ParseFingerprint accepts, the bit position
\* lastBit stays within 1..32 at every nonzero code (so the int8 never
\* overflows and each code sets bit lastBit - 1 of the 32-bit hash).
C17_LastBitWithinHash ==
    (cres.entry = "ParseFingerprint" /\ cres.status = "ok")
        => \A k \in 1..Len(LastBits(ResolvedBits(cdata), 1, 0)) :
              /\ LastBits(ResolvedBits(cdata), 1, 0)[k] >= 1
              /\ LastBits(ResolvedBits(cdata), 1, 0)[k] <= HashBits

====
